---- MODULE Spec2Model ----
(***************************************************************************)
(* A model of the after8 CHIP-8 interpreter: the CPU of chip8/cpu.rs and   *)
(* the Screen of chip8/screen.rs.                                          *)
(*                                                                         *)
(* Encoding of the two large arrays:                                       *)
(*   ram   : [u8; RAM_SIZE] is kept as a function whose domain is the set  *)
(*           of addresses holding a non-zero byte (every other address of  *)
(*           0..RAM_SIZE-1 holds 0, as after `[0; RAM_SIZE]`);             *)
(*   pixel : [bool; 64*32] is kept as the set of indices whose cell is     *)
(*           true.                                                         *)
(* A panic ends the process; it is recorded in cpu.status and no further   *)
(* step is taken.                                                          *)
(*                                                                         *)
(* Arithmetic whose result depends on the build (overflow checks on or     *)
(* off) takes both outcomes.  The variables marked `history` record what   *)
(* earlier steps did; no operation reads them.                             *)
(***************************************************************************)
EXTENDS Integers, Sequences, FiniteSets, TLC

\* ---------------------------------------------------------------- constants
RAM_SIZE == 4048
START_ADDR == 512
NUM_REGS == 16
STACK_SIZE == 16
NUM_KEYS == 16
TICKS_PER_FRAME == 10
SCREEN_WIDTH == 64
SCREEN_HEIGHT == 32
FONT_SPRITE_SIZE == 5
FONTSET_SIZE == 80

\* ------------------------------------------------------------------- bounds
\* number of frames the caller asks run_n_ticks for
MaxFrames == 25
\* how many registers / byte values the generated programs range over
NumRegsSampled == 3
NumBytesSampled == 4

\* --------------------------------------------------------- integer helpers
\* the number of values of a u8 and of a u16
U8 == 2 ^ 8
U16 == 2 ^ 16

RECURSIVE BitAnd(_, _, _)
\* a & b on w-bit operands
BitAnd(a, b, w) ==
  IF w = 0 THEN 0
  ELSE (a % 2) * (b % 2) + 2 * BitAnd(a \div 2, b \div 2, w - 1)

RECURSIVE BitOr(_, _, _)
\* a | b on w-bit operands
BitOr(a, b, w) ==
  IF w = 0 THEN 0
  ELSE (IF (a % 2) + (b % 2) > 0 THEN 1 ELSE 0)
       + 2 * BitOr(a \div 2, b \div 2, w - 1)

RECURSIVE BitXor(_, _, _)
\* a ^ b on w-bit operands
BitXor(a, b, w) ==
  IF w = 0 THEN 0
  ELSE (((a % 2) + (b % 2)) % 2) + 2 * BitXor(a \div 2, b \div 2, w - 1)

\* v >> k
Shr(v, k) == v \div (2 ^ k)

\* v << k, truncated to w bits
Shl(v, k, w) == (v * (2 ^ k)) % (2 ^ w)

\* u8::overflowing_add and u8::overflowing_sub: <<result, overflowed>>
overflowing_add(a, b) == <<(a + b) % U8, a + b >= U8>>
overflowing_sub(a, b) == <<(a - b + U8) % U8, a < b>>

\* u8::wrapping_add
wrapping_add(a, b) == (a + b) % U8

\* -------------------------------------------------------------------- ram
\* the byte at address a of a ram image m (a < RAM_SIZE)
RamGet(m, a) == IF a \in DOMAIN m THEN m[a] ELSE 0

\* the ram image m with byte v stored at address a (a < RAM_SIZE)
RamSet(m, a, v) ==
  IF v = 0
  THEN [k \in (DOMAIN m) \ {a} |-> m[k]]
  ELSE [k \in (DOMAIN m) \cup {a} |-> IF k = a THEN v ELSE m[k]]

\* the glyphs of the hexadecimal digits 0..F, five bytes each
FONTSET ==
  << 240, 144, 144, 144, 240,    32,  96,  32,  32, 112,
     240,  16, 240, 128, 240,   240,  16, 240,  16, 240,
     144, 144, 240,  16,  16,   240, 128, 240,  16, 240,
     240, 128, 240, 144, 240,   240,  16,  32,  64,  64,
     240, 144, 240, 144, 240,   240, 144, 240,  16, 240,
     240, 144, 240, 144, 144,   224, 144, 224, 144, 224,
     240, 128, 128, 128, 240,   224, 144, 144, 144, 224,
     240, 128, 240, 128, 240,   240, 128, 240, 128, 128 >>

\* ram after preload_fonts on the zeroed array
preload_fonts ==
  [a \in {k \in 0..(FONTSET_SIZE - 1) : FONTSET[k + 1] # 0} |-> FONTSET[a + 1]]

\* the bytes of a rom given as a sequence of 16-bit words, big-endian
RomByte(rom, k) ==
  IF k % 2 = 0 THEN rom[(k \div 2) + 1] \div 256 ELSE rom[(k \div 2) + 1] % 256

\* the file of a rom given as a sequence of 16-bit words: buf, a Vec<u8>
Image(rom) == [k \in 1..(2 * Len(rom)) |-> RomByte(rom, k - 1)]

\* ram[START_ADDR..START_ADDR + buf.len()].clone_from_slice(&buf), for a
\* slice that is in bounds
LoadRom(m, buf) ==
  LET n == Len(buf)
      nz == {k \in 0..(n - 1) : buf[k + 1] # 0}
      z == {k \in 0..(n - 1) : buf[k + 1] = 0}
      dom == ((DOMAIN m) \ {START_ADDR + k : k \in z})
               \cup {START_ADDR + k : k \in nz}
  IN [a \in dom |->
        IF a >= START_ADDR /\ a < START_ADDR + n
        THEN buf[a - START_ADDR + 1] ELSE m[a]]

\* ----------------------------------------------------------------- Screen
\* the cell indices of the framebuffer
Cells == 0..(SCREEN_WIDTH * SCREEN_HEIGHT - 1)

\* Screen::new: every cell false
Screen_new == [pixel |-> {}]

\* Screen::clear
Screen_clear(screen) == [screen EXCEPT !.pixel = {}]

\* pixel[screen_idx] |= px, for a true px
PixelOr(pixel, screen_idx) == pixel \cup {screen_idx}

\* pixel[screen_idx] ^= px, for a true px
PixelXor(pixel, screen_idx) ==
  IF screen_idx \in pixel THEN pixel \ {screen_idx} ELSE pixel \cup {screen_idx}

\* pixel_changed |= pixel[screen_idx] != px, for a true px
PixelDiffers(pixel, screen_idx) == (screen_idx \in pixel) # TRUE

RECURSIVE draw_bits_lsb_first(_, _, _, _, _)
\* draw_bits reading the sprite byte from its least-significant bit
draw_bits_lsb_first(acc, sprite_byte, y, pos_x, bit) ==
  IF bit = 8 THEN acc
  ELSE LET px == BitAnd(sprite_byte, Shl(1, bit, 8), 8) # 0
           x == (pos_x + bit) % SCREEN_WIDTH
           screen_idx == x + y * SCREEN_WIDTH
       IN IF ~px THEN draw_bits_lsb_first(acc, sprite_byte, y, pos_x, bit + 1)
          ELSE IF PixelDiffers(acc.pixel, screen_idx)
          THEN draw_bits_lsb_first(
                 [pixel |-> PixelXor(acc.pixel, screen_idx), pixel_changed |-> TRUE],
                 sprite_byte, y, pos_x, bit + 1)
          ELSE draw_bits_lsb_first(
                 [pixel |-> PixelXor(acc.pixel, screen_idx),
                  pixel_changed |-> acc.pixel_changed],
                 sprite_byte, y, pos_x, bit + 1)

RECURSIVE draw_bits(_, _, _, _, _)
\* the inner loop of draw_sprite, `for bit in 0..8`, from `bit` on;
\* acc is [pixel, pixel_changed]; `pixel_changed |= d` is TRUE when d and
\* pixel_changed as it was when not
draw_bits(acc, sprite_byte, y, pos_x, bit) ==
  IF bit = 8 THEN acc
  ELSE LET px == BitAnd(sprite_byte, Shr(128, bit), 8) # 0
           x == (pos_x + bit) % SCREEN_WIDTH
           screen_idx == x + y * SCREEN_WIDTH
       IN IF ~px THEN draw_bits(acc, sprite_byte, y, pos_x, bit + 1)
          ELSE IF PixelDiffers(acc.pixel, screen_idx)
          THEN draw_bits(
                 [pixel |-> PixelXor(acc.pixel, screen_idx), pixel_changed |-> TRUE],
                 sprite_byte, y, pos_x, bit + 1)
          ELSE draw_bits(
                 [pixel |-> PixelXor(acc.pixel, screen_idx),
                  pixel_changed |-> acc.pixel_changed],
                 sprite_byte, y, pos_x, bit + 1)

RECURSIVE draw_rows(_, _, _, _, _)
\* the outer loop of draw_sprite over sprite.iter().enumerate(), from row i on
draw_rows(acc, sprite, pos_x, pos_y, i) ==
  IF i >= Len(sprite) THEN acc
  ELSE LET y == (pos_y + i) % SCREEN_HEIGHT
       IN draw_rows(draw_bits(acc, sprite[i + 1], y, pos_x, 0),
                    sprite, pos_x, pos_y, i + 1)

\* Screen::draw_sprite: [pixel |-> the framebuffer after, pixel_changed |-> the
\* value returned]
draw_sprite(screen, sprite, pos_x, pos_y) ==
  draw_rows([pixel |-> screen.pixel, pixel_changed |-> FALSE],
            sprite, pos_x, pos_y, 0)

\* ------------------------------------------------------------------ Stack
\* Stack::new
Stack_new == [sp |-> 0, data |-> [k \in 0..(STACK_SIZE - 1) |-> 0]]

\* Stack::push without the bounds check of data[sp]: the slot is taken
\* modulo the capacity and sp keeps growing
Stack_push_unchecked(stack, val) ==
  [ok |-> TRUE,
   stack |-> [sp |-> stack.sp + 1,
              data |-> [stack.data EXCEPT ![stack.sp % STACK_SIZE] = val]]]

\* Stack::push: [ok |-> FALSE] when data[sp] is out of bounds
Stack_push(stack, val) ==
  IF stack.sp >= STACK_SIZE THEN [ok |-> FALSE, stack |-> stack]
  ELSE [ok |-> TRUE,
        stack |-> [sp |-> stack.sp + 1,
                   data |-> [stack.data EXCEPT ![stack.sp] = val]]]

\* Stack::pop reading data[sp] before the decrement
Stack_pop_stale(stack) ==
  IF stack.sp = 0 THEN [ok |-> FALSE, stack |-> stack, val |-> 0]
  ELSE [ok |-> TRUE,
        stack |-> [stack EXCEPT !.sp = stack.sp - 1],
        val |-> stack.data[stack.sp % STACK_SIZE]]

\* Stack::pop: [ok |-> FALSE] when sp - 1 underflows (a panic with overflow
\* checks, and without them an out-of-bounds data[usize::MAX])
Stack_pop(stack) ==
  IF stack.sp = 0 THEN [ok |-> FALSE, stack |-> stack, val |-> 0]
  ELSE [ok |-> TRUE,
        stack |-> [stack EXCEPT !.sp = stack.sp - 1],
        val |-> stack.data[stack.sp - 1]]

\* -------------------------------------------------------------------- CPU
Regs == 0..(NUM_REGS - 1)

\* the ways a step can end the process
Panics == {"index_out_of_bounds", "arithmetic_overflow", "unreachable",
           "unsupported_opcode", "not_implemented"}

\* the process after a panic of kind `why`
Panic(s, why) == [s EXCEPT !.status = why]

\* CPU::new; status "constructed" until with_rom has copied the file
CPU_new ==
  [v_reg |-> [r \in Regs |-> 0],
   ram |-> preload_fonts,
   pc |-> START_ADDR,
   i_reg |-> 0,
   dt |-> 0,
   st |-> 0,
   keys |-> [k \in 0..(NUM_KEYS - 1) |-> FALSE],
   stack |-> Stack_new,
   screen |-> Screen_new,
   status |-> "constructed"]

\* with_rom copying as much of the file as fits behind START_ADDR
CPU_with_rom_truncating(s, buf) ==
  LET fits == IF START_ADDR + Len(buf) > RAM_SIZE
              THEN SubSeq(buf, 1, RAM_SIZE - START_ADDR) ELSE buf
  IN [s EXCEPT !.ram = LoadRom(s.ram, fits), !.status = "running"]

\* CPU::with_rom on the CPU s that CPU::new returned and the file buf: the
\* range START_ADDR..START_ADDR + buf.len() is checked against the length of
\* ram before anything is copied
CPU_with_rom(s, buf) ==
  IF START_ADDR + Len(buf) > RAM_SIZE THEN Panic(s, "index_out_of_bounds")
  ELSE [s EXCEPT !.ram = LoadRom(s.ram, buf), !.status = "running"]

\* i_reg + d in u16 arithmetic: a panic when overflow checks are compiled
\* in (checks), a wrapped value when they are not
U16Add(a, d, checks) ==
  IF a + d < U16 THEN [ok |-> TRUE, val |-> a + d]
  ELSE IF checks THEN [ok |-> FALSE, val |-> 0]
  ELSE [ok |-> TRUE, val |-> (a + d) % U16]

oc_0000(s) == s

oc_00e0(s) == [s EXCEPT !.screen = Screen_clear(s.screen)]

oc_00ee(s, checks) ==
  LET r == Stack_pop(s.stack)
  IN IF ~r.ok THEN Panic(s, IF checks THEN "arithmetic_overflow"
                                         ELSE "index_out_of_bounds")
     ELSE [s EXCEPT !.stack = r.stack, !.pc = r.val]

oc_1nnn(s, nnn) == [s EXCEPT !.pc = nnn]

oc_2nnn(s, nnn) ==
  LET r == Stack_push(s.stack, s.pc)
  IN IF ~r.ok THEN Panic(s, "index_out_of_bounds")
     ELSE [s EXCEPT !.stack = r.stack, !.pc = nnn]

oc_3xnn(s, x, nn) ==
  IF s.v_reg[x] = nn % U8 THEN [s EXCEPT !.pc = s.pc + 2] ELSE s

oc_4xnn(s, x, nn) ==
  IF s.v_reg[x] # nn % U8 THEN [s EXCEPT !.pc = s.pc + 2] ELSE s

oc_5xy0(s, x, y) ==
  IF s.v_reg[x] = s.v_reg[y] THEN [s EXCEPT !.pc = s.pc + 2] ELSE s

oc_6xnn(s, x, nn) == [s EXCEPT !.v_reg[x] = nn % U8]

\* oc_7xnn writing the carry of the addition to VF
oc_7xnn_with_carry(s, x, nn) ==
  LET r == overflowing_add(s.v_reg[x], nn % U8)
      vf == IF r[2] THEN 1 ELSE 0
  IN [s EXCEPT !.v_reg = [[@ EXCEPT ![x] = r[1]] EXCEPT ![15] = vf]]

oc_7xnn(s, x, nn) == [s EXCEPT !.v_reg[x] = wrapping_add(s.v_reg[x], nn % U8)]

oc_8xy0(s, x, y) == [s EXCEPT !.v_reg[x] = s.v_reg[y]]

oc_8xy1(s, x, y) == [s EXCEPT !.v_reg[x] = BitOr(s.v_reg[x], s.v_reg[y], 8)]

oc_8xy2(s, x, y) == [s EXCEPT !.v_reg[x] = BitAnd(s.v_reg[x], s.v_reg[y], 8)]

oc_8xy3(s, x, y) == [s EXCEPT !.v_reg[x] = BitXor(s.v_reg[x], s.v_reg[y], 8)]

\* oc_8xy4 with the two register writes in the other order
oc_8xy4_flag_first(s, x, y) ==
  LET vx == s.v_reg[x]
      vy == s.v_reg[y]
      r == overflowing_add(vx, vy)
      vf == IF r[2] THEN 1 ELSE 0
  IN [s EXCEPT !.v_reg = [[@ EXCEPT ![15] = vf] EXCEPT ![x] = r[1]]]

oc_8xy4(s, x, y) ==
  LET vx == s.v_reg[x]
      vy == s.v_reg[y]
      r == overflowing_add(vx, vy)
      vf == IF r[2] THEN 1 ELSE 0
  IN [s EXCEPT !.v_reg = [[@ EXCEPT ![x] = r[1]] EXCEPT ![15] = vf]]

\* oc_8xy5 computing VY - VX
oc_8xy5_swapped(s, x, y) ==
  LET vx == s.v_reg[x]
      vy == s.v_reg[y]
      r == overflowing_sub(vy, vx)
      vf == IF r[2] THEN 0 ELSE 1
  IN [s EXCEPT !.v_reg = [[@ EXCEPT ![x] = r[1]] EXCEPT ![15] = vf]]

oc_8xy5(s, x, y) ==
  LET vx == s.v_reg[x]
      vy == s.v_reg[y]
      r == overflowing_sub(vx, vy)
      vf == IF r[2] THEN 0 ELSE 1
  IN [s EXCEPT !.v_reg = [[@ EXCEPT ![x] = r[1]] EXCEPT ![15] = vf]]

\* oc_8xy6 shifting VX in place
oc_8xy6_in_place(s, x, y) ==
  LET vx == s.v_reg[x]
      lsb == BitAnd(vx, 1, 8)
  IN [s EXCEPT !.v_reg = [[@ EXCEPT ![x] = Shr(vx, 1)] EXCEPT ![15] = lsb]]

oc_8xy6(s, x, y) ==
  LET vy == s.v_reg[y]
      lsb == BitAnd(vy, 1, 8)
  IN [s EXCEPT !.v_reg = [[@ EXCEPT ![x] = Shr(vy, 1)] EXCEPT ![15] = lsb]]

\* oc_8xy7 computing VX - VY
oc_8xy7_unswapped(s, x, y) ==
  LET vx == s.v_reg[x]
      vy == s.v_reg[y]
      r == overflowing_sub(vx, vy)
      vf == IF r[2] THEN 0 ELSE 1
  IN [s EXCEPT !.v_reg = [[@ EXCEPT ![x] = r[1]] EXCEPT ![15] = vf]]

oc_8xy7(s, x, y) ==
  LET vx == s.v_reg[x]
      vy == s.v_reg[y]
      r == overflowing_sub(vy, vx)
      vf == IF r[2] THEN 0 ELSE 1
  IN [s EXCEPT !.v_reg = [[@ EXCEPT ![x] = r[1]] EXCEPT ![15] = vf]]

oc_8xye(s, x, y) ==
  LET vy == s.v_reg[y]
      msb == BitAnd(Shr(vy, 7), 1, 8)
  IN [s EXCEPT !.v_reg = [[@ EXCEPT ![x] = Shl(vy, 1, 8)] EXCEPT ![15] = msb]]

oc_9xy0(s, x, y) ==
  IF s.v_reg[x] # s.v_reg[y] THEN [s EXCEPT !.pc = s.pc + 2] ELSE s

oc_annn(s, nnn) == [s EXCEPT !.i_reg = nnn]

oc_bnnn(s, nnn) == [s EXCEPT !.pc = nnn + s.v_reg[0]]

\* rng is the byte drawn by rand::random
oc_cxnn(s, x, nn, rng) == [s EXCEPT !.v_reg[x] = BitAnd(rng, nn % U8, 8)]

oc_dxyn(s, x, y, n) ==
  LET pos_x == s.v_reg[x]
      pos_y == s.v_reg[y]
      sprite_start == s.i_reg
      sprite_end == sprite_start + n
  IN IF sprite_end > RAM_SIZE THEN Panic(s, "index_out_of_bounds")
     ELSE LET sprite_bytes == [k \in 1..n |-> RamGet(s.ram, sprite_start + k - 1)]
              d == draw_sprite(s.screen, sprite_bytes, pos_x, pos_y)
          IN [s EXCEPT !.screen.pixel = d.pixel,
                       !.v_reg[15] = IF d.pixel_changed THEN 1 ELSE 0]

oc_ex9e(s, x) ==
  IF s.v_reg[x] >= NUM_KEYS THEN Panic(s, "index_out_of_bounds")
  ELSE IF s.keys[s.v_reg[x]] THEN [s EXCEPT !.pc = s.pc + 2] ELSE s

oc_exa1(s, x) ==
  IF s.v_reg[x] >= NUM_KEYS THEN Panic(s, "index_out_of_bounds")
  ELSE IF ~s.keys[s.v_reg[x]] THEN [s EXCEPT !.pc = s.pc + 2] ELSE s

oc_fx07(s, x) == [s EXCEPT !.v_reg[x] = s.dt]

oc_fx08(s, x) == Panic(s, "not_implemented")

oc_fx15(s, x) == [s EXCEPT !.dt = s.v_reg[x]]

oc_fx18(s, x) == [s EXCEPT !.st = s.v_reg[x]]

oc_fx1e(s, x, checks) ==
  LET r == U16Add(s.i_reg, s.v_reg[x], checks)
  IN IF ~r.ok THEN Panic(s, "arithmetic_overflow") ELSE [s EXCEPT !.i_reg = r.val]

oc_fx29(s, x) == [s EXCEPT !.i_reg = s.v_reg[x] * FONT_SPRITE_SIZE]

\* a store of byte v at ram[a]; a panic when a is out of bounds
Store(s, a, v) ==
  IF s.status # "running" THEN s
  ELSE IF a >= RAM_SIZE THEN Panic(s, "index_out_of_bounds")
  ELSE [s EXCEPT !.ram = RamSet(s.ram, a, v)]

\* oc_fx33 storing the remainder after the hundreds as the tens digit
oc_fx33_tens_unreduced(s, x) ==
  LET vx == s.v_reg[x]
      hundreds == vx \div 100
      rem == vx - (hundreds * 100)
      ones == rem % 10
  IN Store(Store(Store(s, s.i_reg, hundreds), s.i_reg + 1, rem),
           s.i_reg + 2, ones)

oc_fx33(s, x) ==
  LET vx == s.v_reg[x]
      hundreds == vx \div 100
      rem == vx - (hundreds * 100)
      tens == rem \div 10
      ones == rem - (tens * 10)
  IN Store(Store(Store(s, s.i_reg, hundreds), s.i_reg + 1, tens),
           s.i_reg + 2, ones)

RECURSIVE fx55_loop_exclusive(_, _, _, _)
\* the loop of oc_fx55 as `for idx in 0..x`
fx55_loop_exclusive(s, x, idx, checks) ==
  IF idx >= x \/ s.status # "running" THEN s
  ELSE LET a == U16Add(s.i_reg, idx, checks)
       IN IF ~a.ok THEN Panic(s, "arithmetic_overflow")
          ELSE fx55_loop_exclusive(Store(s, a.val, s.v_reg[idx]), x, idx + 1, checks)

RECURSIVE fx55_loop(_, _, _, _)
\* `for idx in 0..=x` of oc_fx55, from idx on
fx55_loop(s, x, idx, checks) ==
  IF idx > x \/ s.status # "running" THEN s
  ELSE LET a == U16Add(s.i_reg, idx, checks)
       IN IF ~a.ok THEN Panic(s, "arithmetic_overflow")
          ELSE fx55_loop(Store(s, a.val, s.v_reg[idx]), x, idx + 1, checks)

oc_fx55(s, x, checks) ==
  LET t == fx55_loop(s, x, 0, checks)
      r == U16Add(t.i_reg, x + 1, checks)
  IN IF t.status # "running" THEN t
     ELSE IF ~r.ok THEN Panic(t, "arithmetic_overflow")
     ELSE [t EXCEPT !.i_reg = r.val]

RECURSIVE fx65_loop(_, _, _, _)
\* `for idx in 0..=x` of oc_fx65, from idx on
fx65_loop(s, x, idx, checks) ==
  IF idx > x \/ s.status # "running" THEN s
  ELSE LET a == U16Add(s.i_reg, idx, checks)
       IN IF ~a.ok THEN Panic(s, "arithmetic_overflow")
          ELSE IF a.val >= RAM_SIZE THEN Panic(s, "index_out_of_bounds")
          ELSE fx65_loop([s EXCEPT !.v_reg[idx] = RamGet(s.ram, a.val)],
                         x, idx + 1, checks)

oc_fx65(s, x, checks) ==
  LET t == fx65_loop(s, x, 0, checks)
      r == U16Add(t.i_reg, x + 1, checks)
  IN IF t.status # "running" THEN t
     ELSE IF ~r.ok THEN Panic(t, "arithmetic_overflow")
     ELSE [t EXCEPT !.i_reg = r.val]

\* CPU::dispatch
dispatch(s, high_byte, low_byte, rng, checks) ==
  LET b3 == Shr(BitAnd(high_byte, 240, 16), 4)
      b2 == BitAnd(high_byte, 15, 16)
      b1 == Shr(BitAnd(low_byte, 240, 16), 4)
      b0 == BitAnd(low_byte, 15, 16)
      nn == BitAnd(low_byte, 255, 16)
      nnn == BitAnd(BitOr(Shl(high_byte, 8, 16), low_byte, 16), 4095, 16)
  IN CASE b3 = 0 ->
            (CASE b2 = 0 /\ b1 = 14 /\ b0 = 14 -> oc_00ee(s, checks)
               [] b2 = 0 /\ b1 = 14 /\ b0 = 0 -> oc_00e0(s)
               [] b2 = 0 /\ b1 = 0 /\ b0 = 0 -> oc_0000(s)
               [] OTHER -> Panic(s, "unreachable"))
       [] b3 = 1 -> oc_1nnn(s, nnn)
       [] b3 = 2 -> oc_2nnn(s, nnn)
       [] b3 = 3 -> oc_3xnn(s, b2, nn)
       [] b3 = 4 -> oc_4xnn(s, b2, nn)
       [] b3 = 5 /\ b0 = 0 -> oc_5xy0(s, b2, b1)
       [] b3 = 6 -> oc_6xnn(s, b2, nn)
       [] b3 = 7 -> oc_7xnn(s, b2, nn)
       [] b3 = 8 ->
            (CASE b0 = 0 -> oc_8xy0(s, b2, b1)
               [] b0 = 1 -> oc_8xy1(s, b2, b1)
               [] b0 = 2 -> oc_8xy2(s, b2, b1)
               [] b0 = 3 -> oc_8xy3(s, b2, b1)
               [] b0 = 4 -> oc_8xy4(s, b2, b1)
               [] b0 = 5 -> oc_8xy5(s, b2, b1)
               [] b0 = 6 -> oc_8xy6(s, b2, b1)
               [] b0 = 7 -> oc_8xy7(s, b2, b1)
               [] b0 = 14 -> oc_8xye(s, b2, b1)
               [] OTHER -> Panic(s, "unreachable"))
       [] b3 = 9 /\ b0 = 0 -> oc_9xy0(s, b2, b1)
       [] b3 = 10 -> oc_annn(s, nnn)
       [] b3 = 11 -> oc_bnnn(s, nnn)
       [] b3 = 12 -> oc_cxnn(s, b2, nn, rng)
       [] b3 = 13 -> oc_dxyn(s, b2, b1, b0)
       [] b3 = 14 ->
            (CASE b1 = 9 /\ b0 = 14 -> oc_ex9e(s, b2)
               [] b1 = 10 /\ b0 = 1 -> oc_exa1(s, b2)
               [] OTHER -> Panic(s, "unreachable"))
       [] b3 = 15 ->
            (CASE b1 = 0 /\ b0 = 7 -> oc_fx07(s, b2)
               [] b1 = 0 /\ b0 = 8 -> oc_fx08(s, b2)
               [] b1 = 1 /\ b0 = 5 -> oc_fx15(s, b2)
               [] b1 = 1 /\ b0 = 8 -> oc_fx18(s, b2)
               [] b1 = 1 /\ b0 = 14 -> oc_fx1e(s, b2, checks)
               [] b1 = 2 /\ b0 = 9 -> oc_fx29(s, b2)
               [] b1 = 3 /\ b0 = 3 -> oc_fx33(s, b2)
               [] b1 = 5 /\ b0 = 5 -> oc_fx55(s, b2, checks)
               [] b1 = 6 /\ b0 = 5 -> oc_fx65(s, b2, checks)
               [] OTHER -> Panic(s, "unreachable"))
       [] OTHER -> Panic(s, "unsupported_opcode")

\* whether the two reads of CPU::tick, ram[pc] and ram[pc + 1], are in bounds
FetchOk(s) == s.pc < RAM_SIZE /\ s.pc + 1 < RAM_SIZE

\* CPU::tick
tick(s, rng, checks) ==
  IF ~FetchOk(s) THEN Panic(s, "index_out_of_bounds")
  ELSE LET high_byte == RamGet(s.ram, s.pc)
           low_byte == RamGet(s.ram, s.pc + 1)
       IN dispatch([s EXCEPT !.pc = s.pc + 2], high_byte, low_byte, rng, checks)

\* tick_timers decrementing without the `> 0` tests
tick_timers_wrapping(s) ==
  [s EXCEPT !.dt = (s.dt + U8 - 1) % U8, !.st = (s.st + U8 - 1) % U8]

\* CPU::tick_timers
tick_timers(s) ==
  LET s1 == IF s.dt > 0 THEN [s EXCEPT !.dt = s.dt - 1] ELSE s
  IN IF s1.st > 0 THEN [s1 EXCEPT !.st = s1.st - 1] ELSE s1

\* ------------------------------------------------------------ rom images
\* instruction words
W4(b3, b2, b1, b0) == b3 * 4096 + b2 * 256 + b1 * 16 + b0
WXNN(b3, x, nn) == b3 * 4096 + x * 256 + nn
WNNN(b3, nnn) == b3 * 4096 + nnn

\* the address of word k (from 0) of the loaded rom
Addr(k) == START_ADDR + 2 * k

\* the keypress wait, which ends the process (oc_fx08)
HALT == W4(15, 0, 0, 8)
RET == W4(0, 0, 14, 14)

\* the registers and byte values the generated roms range over
RegOrder == <<0, 15, 1, 14, 2, 7>>
ByteOrder == <<0, 255, 1, 128, 127, 16>>
SampleRegs == {RegOrder[k] : k \in 1..NumRegsSampled}
SampleBytes == {ByteOrder[k] : k \in 1..NumBytesSampled}

\* two register loads, one 8XY_ instruction
AluRoms ==
  {<<WXNN(6, x, a), WXNN(6, y, b), W4(8, x, y, k), HALT>> :
     x \in SampleRegs, y \in SampleRegs, a \in SampleBytes, b \in SampleBytes,
     k \in (0..8) \cup {14}}

\* two register loads, one skip (or 5XY1 / 9XY1, which are no instructions)
SkipOps(x, y, b) ==
  {WXNN(3, x, b), WXNN(4, x, b), W4(5, x, y, 0), W4(9, x, y, 0),
   W4(14, x, 9, 14), W4(14, x, 10, 1), W4(5, x, y, 1), W4(9, x, y, 1)}

SkipRoms ==
  UNION {{<<WXNN(6, x, a), WXNN(6, y, b), op, HALT, HALT>> : op \in SkipOps(x, y, b)} :
           x \in SampleRegs, y \in SampleRegs, a \in SampleBytes, b \in SampleBytes}

\* d nested subroutines: word 2k calls word 2k+2, word 2d returns
CallChain(d) ==
  [k \in 1..(2 * d + 1) |->
     IF k = 2 * d + 1 THEN RET
     ELSE IF k % 2 = 1 THEN WNNN(2, Addr(k + 1))
     ELSE IF k = 2 THEN HALT ELSE RET]

CallRoms ==
  {CallChain(d) : d \in 1..(STACK_SIZE + 1)}
    \cup {<<WNNN(2, START_ADDR)>>, <<RET>>,
          <<WNNN(2, Addr(3)), WNNN(2, Addr(3)), HALT, RET>>}

\* the index values the dump/load roms use
SampleAddrs == {0, 768, RAM_SIZE - 16, RAM_SIZE - 8}

\* set registers, dump V0..VX at i, overwrite registers, load V0..VX from i
DumpRoms ==
  {<<WNNN(10, i), WXNN(6, 0, a), WXNN(6, 1, b), WXNN(6, 14, a), WXNN(6, 15, b),
     W4(15, x, 5, 5),
     WXNN(6, 0, 7), WXNN(7, 1, 9), WXNN(6, 14, 7), WXNN(6, 15, 3),
     WNNN(10, i), W4(15, x, 6, 5), HALT>> :
     i \in SampleAddrs, x \in Regs, a \in SampleBytes, b \in SampleBytes}

\* sprite rows kept in the rom behind the code
SpriteData == <<65409, 195, 6204, 32487, 384, 43605, 4080, 65535>>

\* an optional glyph at (0, 0), then the same sprite drawn twice at
\* (V[xr], V[yr]); word 8 on is sprite data
DrawRoms ==
  {<<WNNN(10, 10), W4(13, 2, 2, pn), WNNN(10, i),
     WXNN(6, r[1], px), WXNN(6, r[2], py),
     W4(13, r[1], r[2], n), W4(13, r[1], r[2], n), HALT>> \o SpriteData :
     pn \in {0, 5}, i \in {Addr(8), 0, RAM_SIZE - 2},
     r \in {<<0, 1>>, <<0, 0>>, <<15, 1>>, <<1, 15>>},
     px \in SampleBytes \cup {60}, py \in SampleBytes \cup {31},
     n \in {0, 1, 5, 15}}

\* set both timers, then read the delay timer in a loop, frame after frame
TimerRoms ==
  {<<WXNN(6, 0, v), W4(15, 0, 1, 5), WXNN(6, 1, w), W4(15, 1, 1, 8),
     W4(15, 2, 0, 7), WNNN(1, Addr(4))>> : v \in {0, 2, 5}, w \in {0, 1, 3}}
    \cup {<<WXNN(12, 0, 3), W4(15, 0, 1, 5), W4(0, 0, 0, 0), W4(0, 0, 14, 0),
            WNNN(11, Addr(0))>>}

\* one instruction that reads VX, for every byte VX can hold: the keypad
\* skips, the glyph address, the BCD store, the add to the index register
ByteOps(x) ==
  {W4(14, x, 9, 14), W4(14, x, 10, 1), W4(15, x, 2, 9), W4(15, x, 3, 3),
   W4(15, x, 1, 14)}

ByteRoms ==
  UNION {{<<WNNN(10, 768), WXNN(6, x, v), op, HALT, HALT>> : op \in ByteOps(x)} :
           x \in {0}, v \in 0..(U8 - 1)}

\* the BCD store of VX at the index values of SampleAddrs and at the last
\* addresses of the 12-bit range
BcdRoms ==
  {<<WXNN(6, x, v), WNNN(10, i), W4(15, x, 3, 3), HALT>> :
     x \in SampleRegs, v \in SampleBytes,
     i \in SampleAddrs \cup {RAM_SIZE - 3, RAM_SIZE - 2, RAM_SIZE, 4093}}

\* words that are no instruction of dispatch, the word 0000 and the keypress
\* wait
DecodeWords ==
  {W4(0, 0, 0, 0), W4(0, 1, 2, 3), W4(0, 0, 14, 1), W4(0, 1, 14, 0),
   W4(5, 0, 1, 1), W4(5, 1, 2, 15), W4(9, 0, 1, 1), W4(9, 1, 0, 8),
   W4(8, 0, 1, 8), W4(8, 1, 0, 15), W4(8, 0, 0, 13),
   W4(14, 0, 0, 0), W4(14, 0, 9, 15), W4(14, 1, 10, 14),
   W4(15, 0, 0, 10), W4(15, 0, 15, 15), W4(15, 1, 7, 5), W4(15, 0, 0, 0),
   HALT, W4(15, 7, 0, 8)}

DecodeRoms == {<<WXNN(6, 0, 1), w, WXNN(6, 1, 1), HALT>> : w \in DecodeWords}

\* jumps to, and data accesses at, the last addresses of the 12-bit range
EdgeAddrs == {RAM_SIZE - 2, RAM_SIZE - 1, RAM_SIZE, 4094, 4095}

MemRoms ==
  {<<WNNN(1, a)>> : a \in EdgeAddrs}
    \cup {<<WXNN(6, 0, 3), WNNN(11, a)>> : a \in EdgeAddrs}
    \cup {<<WNNN(10, a), WXNN(6, 1, 9), op, HALT>> :
            a \in EdgeAddrs \cup {RAM_SIZE - 3},
            op \in {W4(15, 0, 3, 3), W4(15, 1, 5, 5), W4(15, 1, 6, 5),
                    W4(13, 0, 0, 2), W4(13, 0, 0, 0), W4(15, 1, 1, 14)}}

\* the number of FX1E of VX = 255 that take the index register from 4095
\* past the last u16
WrapAdds == ((U16 - 4095) \div 255) + 1

\* the index register raised by repeated FX1E until the u16 addition
\* overflows, then a register dump (or a BCD store, a load, a draw) at it
WrapRoms ==
  {<<WNNN(10, 4095), WXNN(6, 0, 255), WXNN(6, 1, 7)>>
     \o [k \in 1..WrapAdds |-> W4(15, 0, 1, 14)]
     \o <<op, HALT>> :
     op \in {W4(15, 1, 5, 5), W4(15, 1, 3, 3), W4(15, 1, 6, 5), W4(13, 0, 0, 2)}}

\* VF set to 85, VX to a, the index register to 768, then one instruction
\* that is none of 8XY4..8XYE and DXYN, then the code it can skip or jump to
FlagOps(x, y) ==
  {W4(0, 0, 14, 0), W4(0, 0, 14, 14), WNNN(1, Addr(5)), WNNN(2, Addr(5)),
   WXNN(3, x, 1), WXNN(4, x, 1), W4(5, x, y, 0), W4(9, x, y, 0),
   WXNN(6, x, 9), WXNN(7, x, 2), WXNN(7, x, 255),
   W4(8, x, y, 0), W4(8, x, y, 1), W4(8, x, y, 2), W4(8, x, y, 3),
   WNNN(10, 4095), WNNN(11, Addr(5)), WXNN(12, x, 3),
   W4(14, x, 9, 14), W4(14, x, 10, 1),
   W4(15, x, 0, 7), W4(15, x, 1, 5), W4(15, x, 1, 8), W4(15, x, 1, 14),
   W4(15, x, 2, 9), W4(15, x, 3, 3), W4(15, x, 5, 5), W4(15, x, 6, 5)}

FlagRoms ==
  UNION {{<<WXNN(6, 15, 85), WXNN(6, x, a), WNNN(10, 768), op, HALT, HALT>> :
            op \in FlagOps(x, y)} :
           x \in SampleRegs, y \in {1, 15}, a \in SampleBytes}

\* files of the lengths around RAM_SIZE - START_ADDR, of odd lengths and of
\* length 0; a file starts with the keypress wait where it is long enough
LoadLens ==
  {0, 1, 3, RAM_SIZE - START_ADDR - 1, RAM_SIZE - START_ADDR,
   RAM_SIZE - START_ADDR + 1, RAM_SIZE - START_ADDR + 2, 2 ^ 12}

FileByte(k) == IF k = 0 THEN 240 ELSE IF k = 1 THEN 8 ELSE (k * 37 + 11) % U8

LoadImages == {[k \in 1..n |-> FileByte(k - 1)] : n \in LoadLens}

Roms ==
  AluRoms \cup SkipRoms \cup CallRoms \cup DumpRoms \cup DrawRoms \cup TimerRoms
    \cup ByteRoms \cup BcdRoms \cup DecodeRoms \cup MemRoms \cup WrapRoms
    \cup FlagRoms

\* the files with_rom is given
Images == {Image(rom) : rom \in Roms} \cup LoadImages

\* ---------------------------------------------------------------- machine
VARIABLES
  cpu,        \* the CPU, its Stack and its Screen
  frame_pos,  \* run_single_frame: 0..9 the tick to run, 10 render, 11 tick_timers
  frames,     \* run_n_ticks: frames completed
  high_byte,  \* the instruction the last tick fetched
  low_byte,
  call_sites, \* history: <<address, depth>> of each call not yet returned from
  last_dump,  \* history: the last register dump
  last_draw,  \* history: the last sprite draw
  dt_set,     \* history: the last set of the delay timer
  ticks_run,  \* history: calls of tick that returned
  renders,    \* history: calls of render
  i_sum,      \* history: the index register as the unbounded sum of what the
              \* program added to it since it was last assigned
  image       \* history: the file with_rom read

vars == <<cpu, frame_pos, frames, high_byte, low_byte,
          call_sites, last_dump, last_draw, dt_set, ticks_run, renders, i_sum,
          image>>

None == [valid |-> FALSE]

\* the bytes rand::random can return to the next tick
RngChoices(s) ==
  IF FetchOk(s) /\ Shr(RamGet(s.ram, s.pc), 4) = 12 THEN 0..(U8 - 1) ELSE {0}

\* whether overflow checks are compiled in matters to oc_00ee and to the
\* FX__ instructions that add to i_reg: both builds are tried there
ChecksChoices(s) ==
  IF FetchOk(s) /\ (Shr(RamGet(s.ram, s.pc), 4) = 15
                     \/ (RamGet(s.ram, s.pc) = 0 /\ RamGet(s.ram, s.pc + 1) = 238))
  THEN BOOLEAN ELSE {TRUE}

\* the instruction the next tick fetches, as <<b3, b2, b1, b0>>
Fetched(s) ==
  LET hi == RamGet(s.ram, s.pc)
      lo == RamGet(s.ram, s.pc + 1)
  IN <<hi \div 16, hi % 16, lo \div 16, lo % 16>>

Init ==
  /\ cpu = CPU_new
  /\ frame_pos = 0
  /\ frames = 0
  /\ high_byte = 0
  /\ low_byte = 0
  /\ call_sites = <<>>
  /\ last_dump = None
  /\ last_draw = None
  /\ dt_set = None
  /\ ticks_run = 0
  /\ renders = 0
  /\ i_sum = 0
  /\ image = <<>>

\* the history variables after a tick from s to t
HistoryAfter(s, t) ==
  LET op == Fetched(s)
      done == FetchOk(s) /\ t.status = "running"
  IN /\ call_sites' =
          IF done /\ op[1] = 2
            THEN Append(call_sites, <<s.pc, s.stack.sp>>)
          ELSE IF done /\ op = <<0, 0, 14, 14>> /\ Len(call_sites) > 0
            THEN SubSeq(call_sites, 1, Len(call_sites) - 1)
          ELSE call_sites
     /\ last_dump' =
          IF done /\ op[1] = 15 /\ op[3] = 5 /\ op[4] = 5
            THEN [valid |-> TRUE, i |-> s.i_reg, x |-> op[2], v |-> s.v_reg]
          ELSE IF t.ram # s.ram THEN None
          ELSE last_dump
     /\ last_draw' =
          IF done /\ op[1] = 13
            THEN [valid |-> TRUE, before |-> s.screen.pixel,
                  i |-> s.i_reg, n |-> op[4],
                  pos_x |-> s.v_reg[op[2]], pos_y |-> s.v_reg[op[3]],
                  twice |-> /\ last_draw.valid
                            /\ last_draw.i = s.i_reg
                            /\ last_draw.n = op[4]
                            /\ last_draw.pos_x = s.v_reg[op[2]]
                            /\ last_draw.pos_y = s.v_reg[op[3]]]
          ELSE IF t.screen # s.screen \/ t.ram # s.ram THEN None
          ELSE last_draw
     /\ dt_set' =
          IF done /\ op[1] = 15 /\ op[3] = 1 /\ op[4] = 5
            THEN [valid |-> TRUE, val |-> s.v_reg[op[2]], frame |-> frames]
          ELSE dt_set
     /\ i_sum' =
          IF ~done THEN i_sum
          ELSE IF op[1] = 10 \/ (op[1] = 15 /\ op[3] = 2 /\ op[4] = 9)
            THEN t.i_reg
          ELSE IF op[1] = 15 /\ op[3] = 1 /\ op[4] = 14
            THEN i_sum + s.v_reg[op[2]]
          ELSE IF op[1] = 15 /\ op[3] \in {5, 6} /\ op[4] = 5
            THEN i_sum + op[2] + 1
          ELSE i_sum

\* CPU::with_rom, after CPU::new, on the file it is given
WithRom ==
  /\ cpu.status = "constructed"
  /\ \E buf \in Images :
       /\ cpu' = CPU_with_rom(cpu, buf)
       /\ image' = buf
  /\ UNCHANGED <<frame_pos, frames, high_byte, low_byte,
                 call_sites, last_dump, last_draw, dt_set, ticks_run, renders,
                 i_sum>>

\* one pass of `for _ in 0..TICKS_PER_FRAME { self.tick() }`
Tick ==
  /\ cpu.status = "running"
  /\ frames < MaxFrames
  /\ frame_pos < TICKS_PER_FRAME
  /\ \E rng \in RngChoices(cpu), checks \in ChecksChoices(cpu) :
       cpu' = tick(cpu, rng, checks)
  /\ frame_pos' = frame_pos + 1
  /\ high_byte' = IF FetchOk(cpu) THEN RamGet(cpu.ram, cpu.pc) ELSE high_byte
  /\ low_byte' = IF FetchOk(cpu) THEN RamGet(cpu.ram, cpu.pc + 1) ELSE low_byte
  /\ HistoryAfter(cpu, cpu')
  /\ ticks_run' = IF cpu'.status = "running" THEN ticks_run + 1 ELSE ticks_run
  /\ UNCHANGED <<frames, renders, image>>

\* run_single_frame rendering after TICKS_PER_FRAME - 1 ticks
Render_one_tick_early ==
  /\ cpu.status = "running"
  /\ frame_pos = TICKS_PER_FRAME - 1
  /\ frame_pos' = TICKS_PER_FRAME + 1
  /\ renders' = renders + 1
  /\ UNCHANGED <<cpu, frames, high_byte, low_byte,
                 call_sites, last_dump, last_draw, dt_set, ticks_run, i_sum,
                 image>>

\* self.screen.render(): the renderer is handed the framebuffer
Render ==
  /\ cpu.status = "running"
  /\ frame_pos = TICKS_PER_FRAME
  /\ frame_pos' = TICKS_PER_FRAME + 1
  /\ renders' = renders + 1
  /\ UNCHANGED <<cpu, frames, high_byte, low_byte,
                 call_sites, last_dump, last_draw, dt_set, ticks_run, i_sum,
                 image>>

\* self.tick_timers(), which ends the frame
TickTimers ==
  /\ cpu.status = "running"
  /\ frame_pos = TICKS_PER_FRAME + 1
  /\ cpu' = tick_timers(cpu)
  /\ frame_pos' = 0
  /\ frames' = frames + 1
  /\ UNCHANGED <<high_byte, low_byte, call_sites, last_dump, last_draw, dt_set,
                 ticks_run, renders, i_sum, image>>

Next == WithRom \/ Tick \/ Render \/ TickTimers

Spec == Init /\ [][Next]_vars

\* ----------------------------------------------------------------- claims
\* the instruction last fetched, as <<b3, b2, b1, b0>>
Last == <<high_byte \div 16, high_byte % 16, low_byte \div 16, low_byte % 16>>

\* the next step is a tick that fetches an instruction
Stepping ==
  cpu.status = "running" /\ frame_pos < TICKS_PER_FRAME /\ FetchOk(cpu)

\* the next step is a tick that fetches 8XYk
Stepping8(k) == Stepping /\ Fetched(cpu)[1] = 8 /\ Fetched(cpu)[4] = k

\* the operands of the instruction about to be fetched
OpX == Fetched(cpu)[2]
OpY == Fetched(cpu)[3]
OpN == Fetched(cpu)[4]

\* C1 as stated: after 8XY4 on a = VX, b = VY, for every X and Y in 0..15,
\* VF is 1 iff a + b > 255 and VX is (a + b) mod 256.
C1_AsStated ==
  [][Stepping8(4) =>
       LET a == cpu.v_reg[OpX]
           b == cpu.v_reg[OpY]
       IN /\ cpu'.v_reg[15] = (IF a + b > 255 THEN 1 ELSE 0)
          /\ cpu'.v_reg[OpX] = (a + b) % 256]_vars

\* C1 amended: after 8XY4 on a = VX, b = VY, VF is 1 iff a + b > 255, for
\* every X and Y; VX is (a + b) mod 256 for every X other than 15 (the flag
\* is written last, so with X = 15 the register holds the flag).
C1_AddWithCarry ==
  [][Stepping8(4) =>
       LET a == cpu.v_reg[OpX]
           b == cpu.v_reg[OpY]
       IN /\ cpu'.status = "running"
          /\ cpu'.v_reg[15] = (IF a + b > 255 THEN 1 ELSE 0)
          /\ OpX # 15 => cpu'.v_reg[OpX] = (a + b) % 256]_vars

\* an 8XY4 with X # 15 has carried: VF is 1 and VX holds the wrapped sum
C1_Witness ==
  /\ cpu.status = "running"
  /\ Last[1] = 8 /\ Last[4] = 4 /\ Last[2] # 15
  /\ cpu.v_reg[15] = 1
  /\ cpu.v_reg[Last[2]] = 127

\* C2 as stated: after 8XY5 on a = VX, b = VY, for every X and Y in 0..15,
\* VF is 0 iff b > a and VX is (a - b) mod 256.
C2_AsStated ==
  [][Stepping8(5) =>
       LET a == cpu.v_reg[OpX]
           b == cpu.v_reg[OpY]
       IN /\ cpu'.v_reg[15] = (IF b > a THEN 0 ELSE 1)
          /\ cpu'.v_reg[OpX] = (a - b) % 256]_vars

\* C2 amended: after 8XY5 on a = VX, b = VY, VF is 0 iff b > a, for every X
\* and Y; VX is (a - b) mod 256 for every X other than 15.
C2_SubWithBorrow ==
  [][Stepping8(5) =>
       LET a == cpu.v_reg[OpX]
           b == cpu.v_reg[OpY]
       IN /\ cpu'.status = "running"
          /\ cpu'.v_reg[15] = (IF b > a THEN 0 ELSE 1)
          /\ OpX # 15 => cpu'.v_reg[OpX] = (a - b) % 256]_vars

\* an 8XY5 with X # 15 has borrowed: VF is 0 and VX holds 1 - 128 mod 256
C2_Witness ==
  /\ cpu.status = "running"
  /\ Last[1] = 8 /\ Last[4] = 5 /\ Last[2] # 15 /\ Last[3] # 15
  /\ cpu.v_reg[15] = 0
  /\ cpu.v_reg[Last[3]] = 128
  /\ cpu.v_reg[Last[2]] = 129

\* the value a shift of v leaves in the destination, and the bit it shifts out
ShiftResult(k, v) == IF k = 6 THEN v \div 2 ELSE (v * 2) % 256
ShiftedOut(k, v) == IF k = 6 THEN v % 2 ELSE v \div 128

\* C3 as stated: after 8XY6 / 8XYE on v = VY the destination VX holds v >> 1
\* / (v << 1) mod 256, VF holds the bit shifted out, and VY still holds v
\* whenever X and Y differ.
C3_AsStated ==
  [][\A k \in {6, 14} :
       Stepping8(k) =>
         LET v == cpu.v_reg[OpY]
         IN /\ cpu'.v_reg[OpX] = ShiftResult(k, v)
            /\ cpu'.v_reg[15] = ShiftedOut(k, v)
            /\ OpX # OpY => cpu'.v_reg[OpY] = v]_vars

\* C3 amended: after 8XY6 / 8XYE on v = VY, VF holds the bit shifted out; the
\* destination VX holds v >> 1 / (v << 1) mod 256 when X is not 15; and VY
\* still holds v when Y differs from X and Y is not 15.
C3_Shifts ==
  [][\A k \in {6, 14} :
       Stepping8(k) =>
         LET v == cpu.v_reg[OpY]
         IN /\ cpu'.status = "running"
            /\ cpu'.v_reg[15] = ShiftedOut(k, v)
            /\ OpX # 15 => cpu'.v_reg[OpX] = ShiftResult(k, v)
            /\ (OpX # OpY /\ OpY # 15) => cpu'.v_reg[OpY] = v]_vars

\* a right shift of VY = 255 into another register VX, neither being VF:
\* VX is 127, VF is 1 and VY is still 255
C3_Witness ==
  /\ cpu.status = "running"
  /\ Last[1] = 8 /\ Last[4] = 6
  /\ Last[2] # Last[3] /\ Last[2] # 15 /\ Last[3] # 15
  /\ cpu.v_reg[Last[3]] = 255
  /\ cpu.v_reg[Last[2]] = 127
  /\ cpu.v_reg[15] = 1

\* the next step is a tick that fetches the instruction with these nibbles
SteppingOp(b3, b1, b0) ==
  /\ Stepping
  /\ Fetched(cpu)[1] = b3 /\ Fetched(cpu)[3] = b1 /\ Fetched(cpu)[4] = b0

\* the operand nnn of the instruction about to be fetched
OpNNN == Fetched(cpu)[2] * 256 + Fetched(cpu)[3] * 16 + Fetched(cpu)[4]

\* C4: a call 2NNN fetched at p with stack depth d < 16 completes, sets pc to
\* NNN and the depth to d + 1; the return 00EE matching it (calls and returns
\* nest, so the most recent call not yet returned from) sets pc to p + 2 and
\* the depth back to d.
C4_CallReturn ==
  [][/\ (Stepping /\ Fetched(cpu)[1] = 2 /\ cpu.stack.sp < STACK_SIZE) =>
          /\ cpu'.status = "running"
          /\ cpu'.pc = OpNNN
          /\ cpu'.stack.sp = cpu.stack.sp + 1
     /\ (Stepping /\ Fetched(cpu) = <<0, 0, 14, 14>> /\ Len(call_sites) > 0) =>
          LET call == call_sites[Len(call_sites)]
          IN /\ cpu'.status = "running"
             /\ cpu'.pc = call[1] + 2
             /\ cpu'.stack.sp = call[2]]_vars

\* the return from the sixteenth nested subroutine of CallChain(16) has
\* executed: fifteen calls are still open and pc is behind the sixteenth call
C4_Witness ==
  /\ cpu.status = "running"
  /\ Last = <<0, 0, 14, 14>>
  /\ cpu.stack.sp = 15
  /\ Len(call_sites) = 15
  /\ cpu.pc = Addr(30) + 2

\* C5: a dump FX55 at I with I + X inside memory stores Vk at memory[I + k]
\* for k in 0..X, changes no register and leaves the index register at
\* I + X + 1; a load FX65 from the address I of the last dump, with the same
\* X and no store to memory in between, leaves registers 0..X at their
\* values before the dump, memory[I + k] = Vk for k in 0..X, the registers
\* above X unchanged, and the index register at I + X + 1.
C5_DumpLoad ==
  [][/\ (SteppingOp(15, 5, 5) /\ cpu.i_reg + OpX < RAM_SIZE) =>
          /\ cpu'.status = "running"
          /\ \A k \in 0..OpX : RamGet(cpu'.ram, cpu.i_reg + k) = cpu.v_reg[k]
          /\ cpu'.v_reg = cpu.v_reg
          /\ cpu'.i_reg = cpu.i_reg + OpX + 1
     /\ (/\ SteppingOp(15, 6, 5) /\ cpu.i_reg + OpX < RAM_SIZE
         /\ last_dump.valid /\ last_dump.i = cpu.i_reg /\ last_dump.x = OpX) =>
          /\ cpu'.status = "running"
          /\ \A k \in 0..OpX :
               /\ cpu'.v_reg[k] = last_dump.v[k]
               /\ RamGet(cpu'.ram, cpu.i_reg + k) = cpu'.v_reg[k]
          /\ \A k \in Regs : k > OpX => cpu'.v_reg[k] = cpu.v_reg[k]
          /\ cpu'.i_reg = cpu.i_reg + OpX + 1]_vars

\* a load of V0..VF has brought back the 255 and 128 dumped from V0 and V1 at
\* 768 and overwritten since
C5_Witness ==
  /\ cpu.status = "running"
  /\ Last = <<15, 15, 6, 5>>
  /\ last_dump.valid /\ last_dump.i = 768 /\ last_dump.x = 15
  /\ cpu.v_reg[0] = 255 /\ cpu.v_reg[1] = 128 /\ cpu.v_reg[14] = 255
  /\ cpu.i_reg = 768 + 16

\* C6 as stated: the flag DXYN writes to VF is 1 iff the draw toggled at
\* least one framebuffer cell, off-to-on or on-to-off.
C6_AsStated ==
  [][(Stepping /\ Fetched(cpu)[1] = 13 /\ cpu'.status = "running") =>
       ((cpu'.v_reg[15] = 1) <=> (cpu'.screen.pixel # cpu.screen.pixel))]_vars

\* C7: a DXYN that repeats the last draw (same sprite bytes, same position,
\* on the framebuffer that draw left) leaves every framebuffer cell as it was
\* before that draw.
C7_DrawTwice ==
  [][(/\ Stepping /\ Fetched(cpu)[1] = 13 /\ cpu'.status = "running"
      /\ last_draw.valid
      /\ last_draw.i = cpu.i_reg /\ last_draw.n = OpN
      /\ last_draw.pos_x = cpu.v_reg[OpX] /\ last_draw.pos_y = cpu.v_reg[OpY]) =>
       cpu'.screen.pixel = last_draw.before]_vars

\* a non-empty sprite drawn a second time has brought back a framebuffer that
\* was not blank
C7_Witness ==
  /\ cpu.status = "running"
  /\ Last[1] = 13
  /\ last_draw.valid /\ last_draw.twice
  /\ last_draw.before # cpu.screen.pixel
  /\ cpu.screen.pixel # {}

\* the cells the set bits of the n sprite rows at ram[i..] address when drawn
\* at (x, y): bit b (most-significant first) of row r addresses column
\* (x + b) mod 64 of row (y + r) mod 32
Addressed(ram, i, n, x, y) ==
  {((x + b) % SCREEN_WIDTH) + ((y + r) % SCREEN_HEIGHT) * SCREEN_WIDTH :
     <<r, b>> \in {rb \in (0..(n - 1)) \X (0..7) :
                     (RamGet(ram, i + rb[1]) \div (2 ^ (7 - rb[2]))) % 2 = 1}}

\* C8: a DXYN of n rows at (x, y) = (VX, VY), any values in 0..255, toggles
\* exactly the cells addressed by the set sprite bits; every other cell is
\* unchanged.
C8_DrawPlacement ==
  [][(Stepping /\ Fetched(cpu)[1] = 13 /\ cpu.i_reg + OpN <= RAM_SIZE) =>
       LET T == Addressed(cpu.ram, cpu.i_reg, OpN, cpu.v_reg[OpX], cpu.v_reg[OpY])
           before == cpu.screen.pixel
       IN /\ cpu'.status = "running"
          /\ cpu'.screen.pixel = (before \ T) \cup (T \ before)]_vars

\* the one-row sprite 0xFF drawn at x = 60, y = 0 on a blank framebuffer has
\* set columns 60..63 and 0..3 of row 0
C8_Witness ==
  /\ cpu.status = "running"
  /\ Last[1] = 13 /\ Last[4] = 1
  /\ last_draw.valid /\ last_draw.pos_x = 60 /\ last_draw.pos_y = 0
  /\ last_draw.before = {}
  /\ cpu.screen.pixel = {0, 1, 2, 3, 60, 61, 62, 63}

\* a timer after one tick_timers
Decayed(t) == IF t > 0 THEN t - 1 ELSE 0

\* C9: tick_timers, run once per frame, takes 1 off each timer that is above
\* 0 and leaves a timer at 0 there; a tick changes the delay timer only by
\* FX15 and the sound timer only by FX18, and render changes neither; so the
\* delay timer is max(0, v - k) once k frames have ended since it was last
\* set to v.
C9_TimerDecay ==
  [][/\ frame_pos = TICKS_PER_FRAME + 1 =>
          cpu'.dt = Decayed(cpu.dt) /\ cpu'.st = Decayed(cpu.st)
     /\ frame_pos = TICKS_PER_FRAME =>
          cpu'.dt = cpu.dt /\ cpu'.st = cpu.st
     /\ frame_pos < TICKS_PER_FRAME =>
          /\ cpu'.dt # cpu.dt => SteppingOp(15, 1, 5)
          /\ cpu'.st # cpu.st => SteppingOp(15, 1, 8)
     /\ dt_set'.valid =>
          LET k == frames' - dt_set'.frame
          IN cpu'.dt = (IF dt_set'.val > k THEN dt_set'.val - k ELSE 0)]_vars

\* six frames have ended since the delay timer was set to 5, and it is 0
C9_Witness ==
  /\ cpu.status = "running"
  /\ dt_set.valid /\ dt_set.val = 5
  /\ frames - dt_set.frame = 6
  /\ cpu.dt = 0

\* the key a keypad skip tests: the low nibble of VX
KeyOf(v) == v % NUM_KEYS

\* whether the condition of the skip instruction about to be fetched holds
SkipCondition ==
  LET op == Fetched(cpu)
      vx == cpu.v_reg[op[2]]
      vy == cpu.v_reg[op[3]]
      nn == op[3] * 16 + op[4]
  IN CASE op[1] = 3 -> vx = nn
       [] op[1] = 4 -> vx # nn
       [] op[1] = 5 -> vx = vy
       [] op[1] = 9 -> vx # vy
       [] op[1] = 14 /\ op[4] = 14 -> cpu.keys[KeyOf(vx)]
       [] OTHER -> ~cpu.keys[KeyOf(vx)]

\* the next step is a tick that fetches one of the six skip instructions
SteppingSkip ==
  /\ Stepping
  /\ \/ Fetched(cpu)[1] \in {3, 4}
     \/ Fetched(cpu)[1] \in {5, 9} /\ Fetched(cpu)[4] = 0
     \/ SteppingOp(14, 9, 14)
     \/ SteppingOp(14, 10, 1)

\* C10 as stated: a tick that executes 3XNN, 4XNN, 5XY0, 9XY0, EX9E or EXA1
\* moves pc on by 4 when the condition holds and by 2 when it does not, and
\* changes no register, memory, stack, timer or framebuffer state.
C10_AsStated ==
  [][SteppingSkip =>
       cpu' = [cpu EXCEPT !.pc = cpu.pc + (IF SkipCondition THEN 4 ELSE 2)]]_vars

\* a tick is the next step of run_single_frame
TickNext == cpu.status = "running" /\ frame_pos < TICKS_PER_FRAME

\* C11: while the process runs the stack depth is between 0 and 16; a call
\* 2NNN executed at depth 16 and a return 00EE executed at depth 0 each end
\* the process in a panic, after which no instruction executes.
C11_StackBounds ==
  [][/\ cpu.status = "running" => cpu.stack.sp \in 0..STACK_SIZE
     /\ cpu'.status = "running" => cpu'.stack.sp \in 0..STACK_SIZE
     /\ (Stepping /\ Fetched(cpu)[1] = 2 /\ cpu.stack.sp = STACK_SIZE) =>
          cpu'.status \in Panics
     /\ (Stepping /\ Fetched(cpu) = <<0, 0, 14, 14>> /\ cpu.stack.sp = 0) =>
          cpu'.status \in Panics
     /\ cpu.status \in Panics => cpu' = cpu]_vars

\* a seventeenth nested call has ended the process with sixteen return
\* addresses on the stack
C11_Witness ==
  /\ cpu.status = "index_out_of_bounds"
  /\ Last[1] = 2
  /\ cpu.stack.sp = STACK_SIZE
  /\ Len(call_sites) = STACK_SIZE

\* the last address of the 12-bit range
LastAddr == 2 ^ 12 - 1

\* the bytes of memory the instruction about to be fetched reads or writes
\* through the index register: from i_reg up to DataEnd - 1
DataEnd ==
  LET op == Fetched(cpu)
  IN IF op[1] = 13 THEN cpu.i_reg + op[4]
     ELSE IF op[1] = 15 /\ op[3] = 3 /\ op[4] = 3 THEN cpu.i_reg + 3
     ELSE IF op[1] = 15 /\ op[3] \in {5, 6} /\ op[4] = 5 THEN cpu.i_reg + op[2] + 1
     ELSE cpu.i_reg

\* the number of bytes the instruction about to be fetched reads or writes
\* through the index register
DataLen == DataEnd - cpu.i_reg

\* C12 as stated: every address 0x000..0xFFF is a memory location: a tick
\* whose pc and pc + 1 are at most 0xFFF fetches its instruction, and a
\* DXYN, FX33, FX55 or FX65 whose bytes all lie at or below 0xFFF completes,
\* neither ending in an out-of-range panic.
C12_AsStated ==
  [][/\ (TickNext /\ cpu.pc + 1 <= LastAddr) => FetchOk(cpu)
     /\ (Stepping /\ DataLen > 0 /\ DataEnd - 1 <= LastAddr) =>
          cpu'.status = "running"]_vars

\* the instruction words of the defined instruction set: 00E0, 00EE, 1NNN,
\* 2NNN, 3XNN, 4XNN, 5XY0, 6XNN, 7XNN, 8XY0..8XY7, 8XYE, 9XY0, ANNN, BNNN,
\* CXNN, DXYN, EX9E, EXA1, the keypress wait and FX07, FX15, FX18, FX1E,
\* FX29, FX33, FX55, FX65
KeypressWait(op) == op[1] = 15 /\ op[3] = 0 /\ op[4] = 8

DefinedInstruction(op) ==
  \/ op = <<0, 0, 14, 0>> \/ op = <<0, 0, 14, 14>>
  \/ op[1] \in {1, 2, 3, 4, 6, 7, 10, 11, 12, 13}
  \/ op[1] \in {5, 9} /\ op[4] = 0
  \/ op[1] = 8 /\ op[4] \in (0..7) \cup {14}
  \/ op[1] = 14 /\ <<op[3], op[4]>> \in {<<9, 14>>, <<10, 1>>}
  \/ KeypressWait(op)
  \/ op[1] = 15 /\ <<op[3], op[4]>> \in
       {<<0, 7>>, <<1, 5>>, <<1, 8>>, <<1, 14>>, <<2, 9>>, <<3, 3>>,
        <<5, 5>>, <<6, 5>>}

\* C13 as stated: a tick that fetches a word of no defined instruction ends
\* in the unsupported-opcode panic, and a tick that fetches the keypress wait
\* ends in the not-implemented panic.
C13_AsStated ==
  [][/\ (Stepping /\ ~DefinedInstruction(Fetched(cpu))) =>
          cpu'.status = "unsupported_opcode"
     /\ (Stepping /\ KeypressWait(Fetched(cpu))) =>
          cpu'.status = "not_implemented"]_vars

\* C14: an FX33 on v = VX at index I with I + 2 inside memory leaves
\* memory[I] = v div 100, memory[I + 1] = (v div 10) mod 10 and
\* memory[I + 2] = v mod 10, and changes no other byte of memory, no register
\* and not the index register.
C14_BcdStore ==
  [][(SteppingOp(15, 3, 3) /\ cpu.i_reg + 2 < RAM_SIZE) =>
       LET v == cpu.v_reg[OpX]
           i == cpu.i_reg
       IN /\ cpu'.status = "running"
          /\ \A a \in 0..(RAM_SIZE - 1) :
               RamGet(cpu'.ram, a) =
                 (IF a = i THEN v \div 100
                  ELSE IF a = i + 1 THEN (v \div 10) % 10
                  ELSE IF a = i + 2 THEN v % 10
                  ELSE RamGet(cpu.ram, a))
          /\ cpu'.v_reg = cpu.v_reg
          /\ cpu'.i_reg = cpu.i_reg]_vars

\* the BCD store of V0 = 255 at 768 has left 2, 5, 5 at 768, 769, 770
C14_Witness ==
  /\ cpu.status = "running"
  /\ Last = <<15, 0, 3, 3>>
  /\ cpu.v_reg[0] = 255
  /\ cpu.i_reg = 768
  /\ RamGet(cpu.ram, 768) = 2
  /\ RamGet(cpu.ram, 769) = 5
  /\ RamGet(cpu.ram, 770) = 5

\* C15 as stated: EX9E and EXA1 test key number VX mod 16 for every byte
\* VX: the tick completes, moving pc on by 4 when the key is pressed (EX9E) or
\* not pressed (EXA1) and by 2 otherwise, and never ends in a panic.
C15_AsStated ==
  [][(SteppingOp(14, 9, 14) \/ SteppingOp(14, 10, 1)) =>
       LET pressed == cpu.keys[KeyOf(cpu.v_reg[OpX])]
           skip == IF OpN = 14 THEN pressed ELSE ~pressed
       IN /\ cpu'.status = "running"
          /\ cpu'.pc = cpu.pc + 2 + (IF skip THEN 2 ELSE 0)]_vars

\* C16 as stated: after FX29 the index register is 5 * (VX mod 16), the
\* start of one of the sixteen glyphs, for every byte VX.
C16_AsStated ==
  [][SteppingOp(15, 2, 9) =>
       /\ cpu'.i_reg = FONT_SPRITE_SIZE * (cpu.v_reg[OpX] % 16)
       /\ cpu'.i_reg <= FONTSET_SIZE - FONT_SPRITE_SIZE]_vars

\* C17: a frame is TICKS_PER_FRAME = 10 ticks, then one render, then one
\* tick_timers, in that order: a tick runs only before the render of its
\* frame, the render only after the tenth tick, tick_timers only after the
\* render; when the n-th frame ends 10 * n ticks and n renders have run; and
\* within a frame the delay timer changes only by FX15 and the sound timer
\* only by FX18.
C17_FrameStructure ==
  [][/\ ticks_run' # ticks_run =>
          /\ ticks_run' = ticks_run + 1
          /\ renders' = renders /\ frames' = frames
          /\ renders = frames
          /\ ticks_run < TICKS_PER_FRAME * (frames + 1)
     /\ renders' # renders =>
          /\ renders' = renders + 1
          /\ ticks_run' = ticks_run /\ frames' = frames
          /\ renders = frames
          /\ ticks_run = TICKS_PER_FRAME * (frames + 1)
          /\ cpu' = cpu
     /\ frames' # frames =>
          /\ frames' = frames + 1
          /\ ticks_run' = TICKS_PER_FRAME * frames'
          /\ renders' = frames'
          /\ ticks_run' = ticks_run /\ renders' = renders
          /\ cpu'.dt = Decayed(cpu.dt) /\ cpu'.st = Decayed(cpu.st)
     /\ frames' = frames =>
          /\ cpu'.dt # cpu.dt => SteppingOp(15, 1, 5)
          /\ cpu'.st # cpu.st => SteppingOp(15, 1, 8)]_vars

\* three frames have ended: thirty ticks and three renders have run, the
\* delay timer set to 5 in the first frame is 2, and the last FX07 of the
\* third frame read it as 3
C17_Witness ==
  /\ cpu.status = "running"
  /\ frames = 3 /\ ticks_run = 30 /\ renders = 3
  /\ dt_set.valid /\ dt_set.val = 5 /\ dt_set.frame = 0
  /\ cpu.dt = 2
  /\ cpu.v_reg[2] = 3

\* the instructions that write VF as a side effect: 8XY4, 8XY5, 8XY6, 8XY7,
\* 8XYE and DXYN
FlagWriter(op) == (op[1] = 8 /\ op[4] \in {4, 5, 6, 7, 14}) \/ op[1] = 13

\* the instructions whose destination operand includes register 15: 6XNN,
\* 7XNN, CXNN, 8XY0..8XY3 and FX07 with X = 15, and FX65 with X = 15
FlagDestination(op) ==
  /\ op[2] = 15
  /\ \/ op[1] \in {6, 7, 12}
     \/ op[1] = 8 /\ op[4] \in 0..3
     \/ op[1] = 15 /\ <<op[3], op[4]>> \in {<<0, 7>>, <<6, 5>>}

\* C18: a tick that fetches anything but 8XY4, 8XY5, 8XY6, 8XY7, 8XYE and
\* DXYN leaves VF as it was, unless register 15 is the destination operand
\* of the instruction.
C18_FlagFrame ==
  [][(/\ Stepping
      /\ ~FlagWriter(Fetched(cpu))
      /\ ~FlagDestination(Fetched(cpu))) =>
       cpu'.v_reg[15] = cpu.v_reg[15]]_vars

\* 7002 on V0 = 255 has wrapped V0 to 1 and VF still holds the 85 put there
C18_Witness ==
  /\ cpu.status = "running"
  /\ Last = <<7, 0, 0, 2>>
  /\ cpu.v_reg[0] = 1
  /\ cpu.v_reg[15] = 85

\* C19 as stated: after 8XY7 on a = VX, b = VY, for every X and Y, VX is
\* (b - a) mod 256 and VF is 0 iff a > b; VY is unchanged when Y is neither
\* X nor 15.
C19_AsStated ==
  [][Stepping8(7) =>
       LET a == cpu.v_reg[OpX]
           b == cpu.v_reg[OpY]
       IN /\ cpu'.v_reg[OpX] = (b - a) % 256
          /\ cpu'.v_reg[15] = (IF a > b THEN 0 ELSE 1)
          /\ (OpY # OpX /\ OpY # 15) => cpu'.v_reg[OpY] = b]_vars

\* C19 amended: after 8XY7 on a = VX, b = VY, VF is 0 iff a > b, for every X
\* and Y; VX is (b - a) mod 256 for every X other than 15; VY is unchanged
\* when Y is neither X nor 15.
C19_ReverseSub ==
  [][Stepping8(7) =>
       LET a == cpu.v_reg[OpX]
           b == cpu.v_reg[OpY]
       IN /\ cpu'.status = "running"
          /\ cpu'.v_reg[15] = (IF a > b THEN 0 ELSE 1)
          /\ OpX # 15 => cpu'.v_reg[OpX] = (b - a) % 256
          /\ (OpY # OpX /\ OpY # 15) => cpu'.v_reg[OpY] = b]_vars

\* an 8XY7 on VX = 128, VY = 1 with neither register VF has borrowed: VF is
\* 0, VX holds 1 - 128 mod 256 and VY is still 1
C19_Witness ==
  /\ cpu.status = "running"
  /\ Last[1] = 8 /\ Last[4] = 7
  /\ Last[2] # Last[3] /\ Last[2] # 15 /\ Last[3] # 15
  /\ cpu.v_reg[15] = 0
  /\ cpu.v_reg[Last[3]] = 1
  /\ cpu.v_reg[Last[2]] = 129

\* C20 as stated: a tick whose fetch addresses a byte at or beyond RAM_SIZE
\* ends in a panic, and so does a DXYN, FX33, FX55 or FX65 whose bytes, at
\* the index the program has built up (by ANNN, FX29 and the additions of
\* FX1E, FX55 and FX65), reach a byte at or beyond RAM_SIZE: the bytes are
\* never taken from or stored to wrapped, low addresses.
C20_AsStated ==
  [][/\ (TickNext /\ ~FetchOk(cpu)) => cpu'.status \in Panics
     /\ (Stepping /\ DataLen > 0 /\ i_sum + DataLen > RAM_SIZE) =>
          cpu'.status \in Panics]_vars

\* the next step is with_rom
Loading == cpu.status = "constructed"

\* what with_rom leaves when it has copied the L bytes of the file: the file
\* at START_ADDR.., every other byte of memory (the glyph table among them)
\* as CPU::new left it, pc at START_ADDR, and the process running
Loaded ==
  LET L == Len(image')
  IN /\ cpu'.status = "running"
     /\ \A a \in 0..(RAM_SIZE - 1) :
          RamGet(cpu'.ram, a) =
            (IF a >= START_ADDR /\ a < START_ADDR + L
             THEN image'[a - START_ADDR + 1] ELSE RamGet(cpu.ram, a))
     /\ \A a \in 0..(FONTSET_SIZE - 1) : RamGet(cpu'.ram, a) = FONTSET[a + 1]
     /\ cpu'.pc = START_ADDR
     /\ cpu' = [cpu EXCEPT !.ram = cpu'.ram, !.status = "running"]

\* C21 as stated: with_rom copies a file of L bytes to memory[0x200 + k],
\* k < L, leaving the glyph table and all other memory unchanged and pc at
\* 0x200; a file longer than RAM_SIZE - 0x200 is loaded too (as much of it as
\* there is room for) and interpretation begins.
C21_AsStated ==
  [][Loading =>
       IF START_ADDR + Len(image') <= RAM_SIZE THEN Loaded
       ELSE cpu'.status = "running"]_vars

\* C21 amended: with_rom copies a file of L <= RAM_SIZE - 0x200 bytes to
\* memory[0x200 + k], k < L, leaving the glyph table and all other memory
\* unchanged and pc at 0x200; a longer file ends the process in a panic with
\* nothing copied, and no instruction is executed.
C21_ProgramLoad ==
  [][/\ Loading =>
          IF START_ADDR + Len(image') <= RAM_SIZE THEN Loaded
          ELSE /\ cpu' = [cpu EXCEPT !.status = "index_out_of_bounds"]
               /\ ticks_run' = 0
     /\ (START_ADDR + Len(image) > RAM_SIZE) => ticks_run' = 0]_vars

\* a file of exactly RAM_SIZE - 0x200 bytes has been loaded: its last byte
\* is the last byte of memory, its first byte is at 0x200, and the first
\* glyph is in place
C21_Witness ==
  /\ cpu.status = "running"
  /\ ticks_run = 0
  /\ Len(image) = RAM_SIZE - START_ADDR
  /\ image[Len(image)] # 0
  /\ RamGet(cpu.ram, RAM_SIZE - 1) = image[Len(image)]
  /\ RamGet(cpu.ram, START_ADDR) = 240
  /\ RamGet(cpu.ram, 0) = FONTSET[1]

====
